---- MODULE Spec2Model ----
(***************************************************************************)
(* Model of server.py: RangeRequestHandler, an http.server handler that    *)
(* answers GET with optional single byte ranges and OPTIONS preflights,    *)
(* served sequentially by socketserver.TCPServer.                          *)
(*                                                                         *)
(* Text (header values) is a sequence of one-character strings, a file is  *)
(* a sequence of byte values, and the connection (wfile) is the sequence   *)
(* of items written to it: status lines, header lines, the blank line      *)
(* ending the header block, and body writes.                               *)
(***************************************************************************)
EXTENDS Integers, Sequences, FiniteSets, TLC

\* ------------------------------------------------------------------ bounds
\* Longest file whose every content and every offset is enumerated.
MaxSmallLen == 2
\* Number of bytes the large file has beyond two full chunks.
BigTail == 1

\* ------------------------------------------------------- program constants
chunk_size == 8192

\* -------------------------------------------------------------------- text
Digits == <<"0", "1", "2", "3", "4", "5", "6", "7", "8", "9">>

DigitSet == {Digits[i] : i \in 1..10}

Whitespace == {" ", "\t"}

DigitVal(c) == (CHOOSE i \in 1..10 : Digits[i] = c) - 1

S_bytes_eq == <<"b", "y", "t", "e", "s", "=">>

S_bytes_sp == <<"b", "y", "t", "e", "s", " ">>

S_bytes == <<"b", "y", "t", "e", "s">>

S_star == <<"*">>

S_methods == <<"G", "E", "T", ",", " ", "O", "P", "T", "I", "O", "N", "S">>

S_Range == <<"R", "a", "n", "g", "e">>

S_close == <<"c", "l", "o", "s", "e">>

RECURSIVE str(_)
\* Python str(int): decimal digits, most significant first.
str(n) ==
    IF n < 0 THEN <<"-">> \o str(0 - n)
    ELSE IF n < 10 THEN <<Digits[n + 1]>>
    ELSE str(n \div 10) \o <<Digits[(n % 10) + 1]>>

StartsWith(s, p) == Len(s) >= Len(p) /\ SubSeq(s, 1, Len(p)) = p

RECURSIVE replace(_, _)
\* Python s.replace(old, ''): drops every non-overlapping occurrence of old,
\* scanning left to right, wherever it stands in s.
replace(s, old) ==
    IF s = <<>> THEN <<>>
    ELSE IF StartsWith(s, old) THEN replace(SubSeq(s, Len(old) + 1, Len(s)), old)
    ELSE <<Head(s)>> \o replace(Tail(s), old)

RECURSIVE split(_, _)
\* Python s.split(sep) for a one-character sep: always at least one part,
\* parts may be empty.
split(s, sep) ==
    IF \A i \in 1..Len(s) : s[i] # sep THEN <<s>>
    ELSE LET k == CHOOSE i \in 1..Len(s) :
                      s[i] = sep /\ \A j \in 1..(i - 1) : s[j] # sep
         IN  <<SubSeq(s, 1, k - 1)>> \o split(SubSeq(s, k + 1, Len(s)), sep)

RECURSIVE lstrip(_)
lstrip(s) == IF s # <<>> /\ Head(s) \in Whitespace THEN lstrip(Tail(s)) ELSE s

RECURSIVE rstrip(_)
rstrip(s) ==
    IF s # <<>> /\ s[Len(s)] \in Whitespace THEN rstrip(SubSeq(s, 1, Len(s) - 1))
    ELSE s

RECURSIVE DigitsValue(_)
\* value of a digit string in which single underscores may group digits
DigitsValue(s) ==
    IF s = <<>> THEN 0
    ELSE IF s[Len(s)] = "_" THEN DigitsValue(SubSeq(s, 1, Len(s) - 1))
    ELSE 10 * DigitsValue(SubSeq(s, 1, Len(s) - 1)) + DigitVal(s[Len(s)])

ValidDigits(s) ==
    /\ s # <<>>
    /\ \A i \in 1..Len(s) : s[i] \in DigitSet \cup {"_"}
    /\ s[1] # "_"
    /\ s[Len(s)] # "_"
    /\ \A i \in 1..(Len(s) - 1) : ~(s[i] = "_" /\ s[i + 1] = "_")

\* Python int(text): surrounding whitespace is dropped, one sign is allowed,
\* then decimal digits; anything else raises ValueError (ok = FALSE).
int(s) ==
    LET t      == rstrip(lstrip(s))
        signed == t # <<>> /\ t[1] \in {"+", "-"}
        body   == IF signed THEN Tail(t) ELSE t
        sign   == IF signed /\ t[1] = "-" THEN 0 - 1 ELSE 1
    IN  IF ValidDigits(body)
        THEN [ok |-> TRUE, val |-> sign * DigitsValue(body)]
        ELSE [ok |-> FALSE, val |-> 0]

Min(a, b) == IF a < b THEN a ELSE b

\* ---------------------------------------------------------------- the wire
\* send_response writes the status line; the Server and Date headers the
\* library adds with it carry nothing the handler decides and are left out.
StatusLine(code) == [t |-> "status", code |-> code, name |-> "", value |-> <<>>, data |-> <<>>]

Header(name, value) == [t |-> "header", code |-> 0, name |-> name, value |-> value, data |-> <<>>]

EndHeaders == [t |-> "end", code |-> 0, name |-> "", value |-> <<>>, data |-> <<>>]

Body(data) == [t |-> "body", code |-> 0, name |-> "", value |-> <<>>, data |-> data]

\* the explanatory page send_error writes after its headers
ErrBody(code) == [t |-> "errbody", code |-> code, name |-> "", value |-> <<>>, data |-> <<>>]

\* guess_type(path): the MIME type is outside the handler's own logic
guess_type == <<"m", "i", "m", "e">>

S_html == <<"h", "t", "m", "l">>

\* length of the error page, which depends on the error message only
S_pagelen == <<"l", "e", "n">>

\* ---------------------------------------------------------------- the files
ByteVals == {0, 255}

SmallFiles == UNION {[1..n -> ByteVals] : n \in 0..MaxSmallLen}

BigLen == 2 * chunk_size + BigTail

BigFile == [i \in 1..BigLen |-> (7 * i + (i \div 256)) % 256]

Files == SmallFiles \cup {BigFile}

\* lengths an external writer may cut the file down to while it is streamed
TruncLens(f) ==
    IF Len(f) <= MaxSmallLen THEN {n \in {0, Len(f) - 1} : n >= 0 /\ n < Len(f)}
    ELSE {n \in {0, chunk_size} : n < Len(f)}

\* ------------------------------------------------------------- the requests
Blank == 0 - 1

Offsets(L) ==
    IF L <= MaxSmallLen THEN 0..(L + 1)
    ELSE {0, 1, chunk_size - 1, chunk_size, chunk_size + 1, L - 1, L}

\* the client's decimal rendering of an offset
Decimal(n) ==
    LET nd == CHOOSE k \in 1..6 : n < 10 ^ k /\ (k = 1 \/ n >= 10 ^ (k - 1))
    IN  [i \in 1..nd |-> Digits[((n \div (10 ^ (nd - i))) % 10) + 1]]

Bound(b) == IF b = Blank THEN <<>> ELSE Decimal(b)

CanonicalHeader(cs, ce) == S_bytes_eq \o Bound(cs) \o <<"-">> \o Bound(ce)

RawHeaders ==
    { <<>>,
      <<"b", "y", "t", "e", "s", "=", "a", "b", "c", "-", "d", "e", "f">>,
      <<"0", "-", "1">>,
      <<"b", "y", "t", "e", "s", "=", "1">>,
      <<"b", "y", "t", "e", "s", "=", "0", "-", "1", "-", "2">>,
      <<"b", "y", "t", "e", "s", "=", "0", "-", "1", ",", "1", "-", "1">>,
      <<"b", "y", "t", "e", "s", "=", " ", "0", "-", "1", " ">>,
      <<"b", "y", "t", "e", "s", "=", "a", "-">>,
      <<"b", "y", "t", "e", "s", "=", "0", "-", "b">>,
      <<"b", "y", "t", "e", "s", "=", "b", "y", "t", "e", "s", "=", "0", "-", "0">>,
      <<"b", "y", "t", "e", "s", "=", "+", "0", "-", "0", "_", "0">>,
      <<"i", "t", "e", "m", "s", "=", "0", "-", "1">> }

NoRange == [kind |-> "none", range_header |-> <<>>, cs |-> Blank, ce |-> Blank]

RangeChoices(L) ==
    {NoRange}
    \cup {[kind |-> "canonical", range_header |-> CanonicalHeader(cs, ce), cs |-> cs, ce |-> ce] :
             cs \in Offsets(L) \cup {Blank}, ce \in Offsets(L) \cup {Blank}}
    \cup {[kind |-> "raw", range_header |-> h, cs |-> Blank, ce |-> Blank] : h \in RawHeaders}

SomeRange == [kind |-> "canonical", range_header |-> CanonicalHeader(0, 0), cs |-> 0, ce |-> 0]

Request(command, path, r) ==
    [command |-> command, path |-> path, kind |-> r.kind,
     range_header |-> r.range_header, cs |-> r.cs, ce |-> r.ce]

Requests(L) ==
    {Request("GET", "file", r) : r \in RangeChoices(L)}
    \cup {Request("GET", p, r) : p \in {"missing", "dir"}, r \in {NoRange, SomeRange}}
    \cup {Request("OPTIONS", p, r) : p \in {"file", "missing"}, r \in {NoRange, SomeRange}}

NoRequest == Request("", "", NoRange)

\* ------------------------------------------------------------------- state
VARIABLES
    file,              \* bytes of the file the request path resolves to
    req,               \* the request being handled
    sink,              \* "ok" while the client still reads, "closed" after it left
    pc,                \* position of the handler
    wfile,             \* everything written to the connection for this request
    file_size,         \* os.path.getsize(path) as read by do_GET
    start,             \* resolved first offset
    end,               \* resolved last offset
    bytes_to_read,     \* bytes the streaming loop still owes
    fpos,              \* position of the open file object f
    read_failed,       \* f.read raised during this request
    resource_changed,  \* the file was cut down during this request
    client_off,        \* client: next offset of its sequential download
    client_buf,        \* client: bodies concatenated so far
    client_windows     \* client: number of windows concatenated so far

vars == <<file, req, sink, pc, wfile, file_size, start, end, bytes_to_read, fpos,
          read_failed, resource_changed, client_off, client_buf, client_windows>>

handler_locals == <<file_size, start, end, bytes_to_read, fpos>>

client_vars == <<client_off, client_buf, client_windows>>

\* ------------------------------------------------------- header generation
S_ACAO == "Access-Control-Allow-Origin"

S_ACAM == "Access-Control-Allow-Methods"

S_ACAH == "Access-Control-Allow-Headers"

\* the three headers end_headers adds
CORS == <<Header(S_ACAO, S_star), Header(S_ACAM, S_methods), Header(S_ACAH, S_Range)>>

\* end_headers without the override: no CORS headers are added
end_headers_plain(buffer) == buffer \o <<EndHeaders>>

\* RangeRequestHandler.end_headers: the buffered header lines, the three
\* CORS headers, then the blank line; the block is flushed in one write
end_headers(buffer) == buffer \o CORS \o <<EndHeaders>>

\* http.server send_error as the handler uses it: an error status, its
\* headers through the overridden end_headers, then the error page; the
\* first write to a closed connection raises and nothing is written
send_error(w, s, code) ==
    IF s = "ok"
    THEN [wfile |-> w \o end_headers(<<StatusLine(code), Header("Connection", S_close),
                                       Header("Content-Type", S_html),
                                       Header("Content-Length", S_pagelen)>>)
                      \o <<ErrBody(code)>>,
          raised |-> FALSE]
    ELSE [wfile |-> w, raised |-> TRUE]

\* except Exception as e: print(...); self.send_error(500, str(e))
\* an exception raised by send_error itself leaves do_GET
except_handler(w, s) ==
    LET r == send_error(w, s, 500)
    IN  [wfile |-> r.wfile, pc |-> IF r.raised THEN "Raised" ELSE "Responded"]

\* ----------------------------------------------------------- range parsing
range_match(range_header) == split(replace(range_header, S_bytes_eq), "-")

parse_start(rm) ==
    IF rm[1] # <<>> THEN int(rm[1]) ELSE [ok |-> TRUE, val |-> 0]

\* the open end defaults to the length instead of the last offset
parse_end_length(rm, fs) ==
    IF Len(rm) > 1 /\ rm[2] # <<>> THEN int(rm[2]) ELSE [ok |-> TRUE, val |-> fs]

parse_end(rm, fs) ==
    IF Len(rm) > 1 /\ rm[2] # <<>> THEN int(rm[2]) ELSE [ok |-> TRUE, val |-> fs - 1]

\* validation that forgets to bound the end offset
not_satisfiable_no_end(s, e, fs) == s >= fs \/ s > e

\* validation that forgets to compare the two bounds
not_satisfiable_no_order(s, e, fs) == s >= fs \/ e >= fs

not_satisfiable(s, e, fs) == s >= fs \/ e >= fs \/ s > e

\* window length computed as if the end offset were exclusive
content_length_exclusive(s, e) == str(e - s)

content_length_partial(s, e) == str(e - s + 1)

content_range(s, e, fs) == S_bytes_sp \o str(s) \o <<"-">> \o str(e) \o <<"/">> \o str(fs)

partial_headers(s, e, fs) ==
    <<StatusLine(206),
      Header("Content-Type", guess_type),
      Header("Content-Length", content_length_partial(s, e)),
      Header("Content-Range", content_range(s, e, fs)),
      Header("Accept-Ranges", S_bytes),
      Header(S_ACAO, S_star)>>

\* whole-file headers that do not advertise range support
full_headers_no_accept(fs) ==
    <<StatusLine(200),
      Header("Content-Type", guess_type),
      Header("Content-Length", str(fs)),
      Header(S_ACAO, S_star)>>

full_headers(fs) ==
    <<StatusLine(200),
      Header("Content-Type", guess_type),
      Header("Content-Length", str(fs)),
      Header("Accept-Ranges", S_bytes),
      Header(S_ACAO, S_star)>>

options_headers ==
    <<StatusLine(200), Header(S_ACAO, S_star), Header(S_ACAM, S_methods),
      Header(S_ACAH, S_Range)>>

\* f.read(n) with f positioned at pos: at most n bytes, fewer at end of file
read(f, pos, n) == SubSeq(f, pos + 1, Min(pos + n, Len(f)))

\* a loop that always asks for a whole chunk
chunk_request_whole(remaining) == chunk_size

\* bytes the loop asks for in one iteration
chunk_request(remaining) == Min(chunk_size, remaining)

\* a handler that never seeks: the file object stays at offset 0
seek_missing(s) == 0

\* the file object's position after f.seek(start)
seek(s) == s

\* ------------------------------------------------------ reading the wire
RECURSIVE BodyBytes(_)
\* the file bytes written to the connection, in order
BodyBytes(w) ==
    IF w = <<>> THEN <<>>
    ELSE BodyBytes(SubSeq(w, 1, Len(w) - 1)) \o
         (IF w[Len(w)].t = "body" THEN w[Len(w)].data ELSE <<>>)

StatusIdx(w) == {i \in 1..Len(w) : w[i].t = "status"}

EndIdx(w) == {i \in 1..Len(w) : w[i].t = "end"}

HeaderValues(w, name) ==
    {w[i].value : i \in {j \in 1..Len(w) : w[j].t = "header" /\ w[j].name = name}}

\* values of the headers called name in the header block opened at index i
HeaderValuesIn(w, i, name) ==
    {w[k].value : k \in {j \in (i + 1)..Len(w) :
                            /\ w[j].t = "header" /\ w[j].name = name
                            /\ \A m \in (i + 1)..j : w[m].t = "header"}}

FirstStatus(w) == IF w # <<>> /\ w[1].t = "status" THEN w[1].code ELSE 0

\* the response is one clean 206 whose body has the length asked for
Accepted206 ==
    /\ pc = "Responded" /\ sink = "ok" /\ ~resource_changed
    /\ req.command = "GET" /\ req.kind = "canonical"
    /\ req.cs # Blank /\ req.ce # Blank
    /\ Cardinality(StatusIdx(wfile)) = 1 /\ FirstStatus(wfile) = 206
    /\ Len(BodyBytes(wfile)) = req.ce - req.cs + 1

\* -------------------------------------------------------------------- Init
Init ==
    /\ file \in Files
    /\ req = NoRequest
    /\ sink = "ok"
    /\ pc = "idle"
    /\ wfile = <<>>
    /\ file_size = 0
    /\ start = 0
    /\ end = 0
    /\ bytes_to_read = 0
    /\ fpos = 0
    /\ read_failed = FALSE
    /\ resource_changed = FALSE
    /\ client_off = 0
    /\ client_buf = <<>>
    /\ client_windows = 0

\* ----------------------------------------------------------------- actions
\* TCPServer.serve_forever takes the next request and hands it to a fresh
\* handler.
handle_request ==
    /\ pc = "idle"
    /\ \E r \in Requests(Len(file)) : req' = r
    /\ pc' = "Received"
    /\ UNCHANGED <<file, sink, wfile, handler_locals, read_failed, resource_changed,
                   client_vars>>

\* The handler has returned, or its exception has reached the server's
\* handle_error: the connection is shut down and the server goes back to
\* waiting.  The client files the response it received.
finish_request ==
    /\ pc \in {"Responded", "Raised"}
    /\ pc' = "idle"
    /\ req' = NoRequest
    /\ sink' = "ok"
    /\ wfile' = <<>>
    /\ file_size' = 0
    /\ start' = 0
    /\ end' = 0
    /\ bytes_to_read' = 0
    /\ fpos' = 0
    /\ read_failed' = FALSE
    /\ resource_changed' = FALSE
    /\ IF Accepted206
       THEN IF req.cs = client_off
            THEN /\ client_buf' = client_buf \o BodyBytes(wfile)
                 /\ client_off' = req.ce + 1
                 /\ client_windows' = client_windows + 1
            ELSE IF req.cs = 0
            THEN /\ client_buf' = BodyBytes(wfile)
                 /\ client_off' = req.ce + 1
                 /\ client_windows' = 1
            ELSE /\ client_buf' = <<>>
                 /\ client_off' = 0
                 /\ client_windows' = 0
       ELSE UNCHANGED client_vars
    /\ UNCHANGED file

\* the client goes away: every later write to the connection raises
ClientDisconnect ==
    /\ pc \in {"Received", "Streaming"}
    /\ sink = "ok"
    /\ sink' = "closed"
    /\ UNCHANGED <<file, req, pc, wfile, handler_locals, read_failed, resource_changed,
                   client_vars>>

\* another process cuts the file down while the handler streams it
ResourceTruncated ==
    /\ pc = "Streaming"
    /\ \E n \in TruncLens(file) : file' = SubSeq(file, 1, n)
    /\ resource_changed' = TRUE
    /\ client_off' = 0
    /\ client_buf' = <<>>
    /\ client_windows' = 0
    /\ UNCHANGED <<req, sink, pc, wfile, handler_locals, read_failed>>

\* do_GET, path does not exist
do_GET_missing ==
    /\ pc = "Received" /\ req.command = "GET" /\ req.path = "missing"
    /\ LET r == send_error(wfile, sink, 404)
       IN  /\ wfile' = r.wfile
           /\ pc' = IF r.raised THEN "Raised" ELSE "Responded"
    /\ UNCHANGED <<file, req, sink, handler_locals, read_failed, resource_changed,
                   client_vars>>

\* do_GET, path is a directory: SimpleHTTPRequestHandler.do_GET answers,
\* its headers still end through the overridden end_headers
do_GET_dir ==
    /\ pc = "Received" /\ req.command = "GET" /\ req.path = "dir"
    /\ IF sink = "ok"
       THEN /\ wfile' = wfile \o end_headers(<<StatusLine(200), Header("Content-Type", S_html)>>)
                              \o <<[t |-> "listing", code |-> 0, name |-> "", value |-> <<>>, data |-> <<>>]>>
            /\ pc' = "Responded"
       ELSE /\ wfile' = wfile
            /\ pc' = "Raised"
    /\ UNCHANGED <<file, req, sink, handler_locals, read_failed, resource_changed,
                   client_vars>>

\* do_GET, regular file, Range header present and non-empty: parse,
\* validate, then either an error response or the 206 header block
do_GET_range ==
    /\ pc = "Received" /\ req.command = "GET" /\ req.path = "file"
    /\ req.kind # "none" /\ req.range_header # <<>>
    /\ LET fs == Len(file)
           rm == range_match(req.range_header)
           s  == parse_start(rm)
           e  == IF s.ok THEN parse_end(rm, fs) ELSE [ok |-> FALSE, val |-> 0]
       IN  /\ file_size' = fs
           /\ start' = IF s.ok THEN s.val ELSE start
           /\ end' = IF e.ok THEN e.val ELSE end
           /\ IF ~s.ok \/ ~e.ok
              THEN LET x == except_handler(wfile, sink)
                   IN  /\ wfile' = x.wfile
                       /\ pc' = x.pc
                       /\ UNCHANGED <<bytes_to_read, fpos>>
              ELSE IF not_satisfiable(s.val, e.val, fs)
              THEN LET r == send_error(wfile, sink, 416)
                       x == except_handler(wfile, sink)
                   IN  /\ wfile' = IF r.raised THEN x.wfile ELSE r.wfile
                       /\ pc' = IF r.raised THEN x.pc ELSE "Responded"
                       /\ UNCHANGED <<bytes_to_read, fpos>>
              ELSE IF sink = "ok"
              THEN /\ wfile' = wfile \o end_headers(partial_headers(s.val, e.val, fs))
                   /\ pc' = IF e.val - s.val + 1 > 0 THEN "Streaming" ELSE "Responded"
                   /\ fpos' = seek(s.val)
                   /\ bytes_to_read' = e.val - s.val + 1
              ELSE LET x == except_handler(wfile, sink)
                   IN  /\ wfile' = x.wfile
                       /\ pc' = x.pc
                       /\ UNCHANGED <<bytes_to_read, fpos>>
    /\ UNCHANGED <<file, req, sink, read_failed, resource_changed, client_vars>>

\* one iteration of the streaming loop in which f.read succeeds
stream_chunk ==
    /\ pc = "Streaming"
    /\ bytes_to_read > 0
    /\ LET chunk == read(file, fpos, chunk_request(bytes_to_read))
       IN  IF chunk = <<>>
           THEN /\ pc' = "Responded"
                /\ UNCHANGED <<wfile, bytes_to_read, fpos>>
           ELSE IF sink = "ok"
           THEN /\ wfile' = wfile \o <<Body(chunk)>>
                /\ fpos' = fpos + Len(chunk)
                /\ bytes_to_read' = bytes_to_read - Len(chunk)
                /\ pc' = IF bytes_to_read - Len(chunk) > 0 THEN "Streaming" ELSE "Responded"
           ELSE LET x == except_handler(wfile, sink)
                IN  /\ wfile' = x.wfile
                    /\ pc' = x.pc
                    /\ fpos' = fpos + Len(chunk)
                    /\ UNCHANGED bytes_to_read
    /\ UNCHANGED <<file, req, sink, file_size, start, end, read_failed, resource_changed,
                   client_vars>>

\* one iteration of the streaming loop in which f.read raises
stream_read_fails ==
    /\ pc = "Streaming"
    /\ bytes_to_read > 0
    /\ read_failed' = TRUE
    /\ LET x == except_handler(wfile, sink)
       IN  /\ wfile' = x.wfile
           /\ pc' = x.pc
    /\ UNCHANGED <<file, req, sink, handler_locals, resource_changed, client_vars>>

\* do_GET, regular file, no Range header (or an empty one): the whole file
do_GET_full ==
    /\ pc = "Received" /\ req.command = "GET" /\ req.path = "file"
    /\ (req.kind = "none" \/ req.range_header = <<>>)
    /\ file_size' = Len(file)
    /\ \E rd \in {"ok", "error"} :
          /\ read_failed' = (rd = "error" /\ sink = "ok")
          /\ IF sink # "ok"
             THEN /\ wfile' = wfile
                  /\ pc' = "Raised"
             ELSE IF rd = "error"
             THEN /\ wfile' = wfile \o end_headers(full_headers(Len(file)))
                  /\ pc' = "Raised"
             ELSE /\ wfile' = wfile \o end_headers(full_headers(Len(file)))
                                    \o <<Body(read(file, 0, Len(file)))>>
                  /\ pc' = "Responded"
    /\ UNCHANGED <<file, req, sink, start, end, bytes_to_read, fpos, resource_changed,
                   client_vars>>

\* do_OPTIONS: the CORS preflight
do_OPTIONS ==
    /\ pc = "Received" /\ req.command = "OPTIONS"
    /\ IF sink = "ok"
       THEN /\ wfile' = wfile \o end_headers(options_headers)
            /\ pc' = "Responded"
       ELSE /\ wfile' = wfile
            /\ pc' = "Raised"
    /\ UNCHANGED <<file, req, sink, handler_locals, read_failed, resource_changed,
                   client_vars>>

Next ==
    \/ handle_request
    \/ finish_request
    \/ ClientDisconnect
    \/ ResourceTruncated
    \/ do_GET_missing
    \/ do_GET_dir
    \/ do_GET_range
    \/ stream_chunk
    \/ stream_read_fails
    \/ do_GET_full
    \/ do_OPTIONS

Spec == Init /\ [][Next]_vars

\* The handler's thread keeps running its loop: with the client reading and
\* the file readable, an iteration that can be taken is taken.
FairSpec == Spec /\ WF_vars(stream_chunk)

\* ---------------------------------------------------------- claim helpers
\* nothing outside the handler disturbed this request
Clean == sink = "ok" /\ ~read_failed /\ ~resource_changed

Finished == pc \in {"Responded", "Raised"}

RegularGet == req.command = "GET" /\ req.path = "file"

\* the header value is bytes=<digits>-<digits> with at least one bound given
MatchesPattern(h) ==
    /\ StartsWith(h, S_bytes_eq)
    /\ LET rest == SubSeq(h, Len(S_bytes_eq) + 1, Len(h))
       IN  /\ Cardinality({i \in 1..Len(rest) : rest[i] = "-"}) = 1
           /\ \A i \in 1..Len(rest) : rest[i] \in DigitSet \cup {"-"}
           /\ Len(rest) >= 2

\* the window a canonical request asks for, blanks filled in as documented
AskedStart == IF req.cs = Blank THEN 0 ELSE req.cs

AskedEnd == IF req.ce = Blank THEN Len(file) - 1 ELSE req.ce

ExpectedContentRange(s, e, L) ==
    S_bytes_sp \o Decimal(s) \o <<"-">> \o Decimal(e) \o <<"/">> \o Decimal(L)

\* exactly one status line, with this code, opens the response
OnlyStatus(code) == StatusIdx(wfile) = {1} /\ wfile[1].code = code

\* the response is the 206 for window s..e of the file
IsPartial(s, e) ==
    /\ pc = "Responded"
    /\ OnlyStatus(206)
    /\ HeaderValues(wfile, "Content-Length") = {Decimal(e - s + 1)}
    /\ HeaderValues(wfile, "Content-Range") = {ExpectedContentRange(s, e, Len(file))}
    /\ BodyBytes(wfile) = SubSeq(file, s + 1, e + 1)

\* the response is a 416 error and nothing of the file
Is416 ==
    /\ pc = "Responded"
    /\ OnlyStatus(416)
    /\ \A i \in 1..Len(wfile) : wfile[i].t # "body"

\* -------------------------------------------------------------------- C1
\* C1: a GET of a regular file of length L >= 1 with Range bytes=<s>-<e>,
\* 0 <= s <= e <= L-1, is answered 206 with Content-Length e-s+1,
\* Content-Range "bytes s-e/L" and exactly the bytes s..e as body.
C1_PartialContentExact ==
    ( /\ Finished /\ Clean /\ RegularGet /\ req.kind = "canonical"
      /\ req.cs # Blank /\ req.ce # Blank
      /\ 0 <= req.cs /\ req.cs <= req.ce /\ req.ce <= Len(file) - 1 )
    => IsPartial(req.cs, req.ce)

C1_Witness ==
    /\ pc = "Responded" /\ Clean /\ RegularGet /\ req.kind = "canonical"
    /\ req.cs = chunk_size - 1 /\ req.ce = chunk_size - 1
    /\ Len(file) > chunk_size

\* -------------------------------------------------------------------- C2
\* C2: a GET of a regular file of length L >= 1 without a Range header is
\* answered 200 with Content-Length L, Accept-Ranges: bytes, the whole file
\* as body and no Content-Range header.
C2_FullContent ==
    ( /\ Finished /\ Clean /\ RegularGet /\ req.kind = "none" /\ Len(file) >= 1 )
    => /\ pc = "Responded"
       /\ OnlyStatus(200)
       /\ HeaderValues(wfile, "Content-Length") = {Decimal(Len(file))}
       /\ HeaderValues(wfile, "Accept-Ranges") = {S_bytes}
       /\ HeaderValues(wfile, "Content-Range") = {}
       /\ BodyBytes(wfile) = file

C2_Witness ==
    /\ pc = "Responded" /\ Clean /\ RegularGet /\ req.kind = "none"
    /\ Len(file) > chunk_size

\* -------------------------------------------------------------------- C3
\* C3: when the numeric bounds of the range satisfy start >= L or end >= L
\* or start > end, the response is 416; no 206 status line and no file byte
\* is written for that request, whatever happens to the connection.
C3_Unsatisfiable416 ==
    ( /\ RegularGet /\ req.kind = "canonical" /\ ~resource_changed
      /\ pc \in {"Streaming", "Responded", "Raised"}
      /\ (AskedStart >= Len(file) \/ AskedEnd >= Len(file) \/ AskedStart > AskedEnd) )
    => /\ \A i \in 1..Len(wfile) :
              wfile[i].t # "body" /\ ~(wfile[i].t = "status" /\ wfile[i].code = 206)
       /\ pc # "Streaming"
       /\ sink = "ok" => Is416

C3_Witness ==
    /\ pc = "Responded" /\ sink = "ok" /\ RegularGet /\ req.kind = "canonical"
    /\ req.cs # Blank /\ req.ce # Blank
    /\ req.cs <= req.ce /\ req.cs < Len(file) /\ req.ce >= Len(file)

\* -------------------------------------------------------------------- C4
\* C4: every present Range header that does not match bytes=<start>-<end>
\* (non-numeric bound, no bytes= prefix, not exactly two dash-separated
\* parts, both bounds empty) is answered 500 and never 200 or 206.
C4_MalformedIs500 ==
    ( /\ pc \in {"Streaming", "Responded"} /\ sink = "ok" /\ RegularGet
      /\ req.kind # "none" /\ ~MatchesPattern(req.range_header) )
    => /\ pc = "Responded"
       /\ OnlyStatus(500)

\* -------------------------------------------------------------------- C5
\* C5: every response on every branch carries the three CORS headers
\* before its header block ends, and the OPTIONS preflight is a 200 with
\* no body.
HasCORS(w, i, j) ==
    /\ \E k \in i..j : w[k] = Header(S_ACAO, S_star)
    /\ \E k \in i..j : w[k] = Header(S_ACAM, S_methods)
    /\ \E k \in i..j : w[k] = Header(S_ACAH, S_Range)

C5_CORSOnEveryResponse ==
    /\ \A i \in StatusIdx(wfile) :
          \E j \in EndIdx(wfile) :
             /\ j > i
             /\ \A k \in (i + 1)..j : wfile[k].t \in {"header", "end"}
             /\ \A k \in (i + 1)..(j - 1) : wfile[k].t = "header"
             /\ HasCORS(wfile, i, j)
    /\ (pc = "Responded" => wfile # <<>> /\ wfile[1].t = "status")
    /\ (pc = "Responded" /\ req.command = "OPTIONS")
          => /\ OnlyStatus(200)
             /\ wfile[Len(wfile)].t = "end"

C5_Witness ==
    /\ pc = "Responded"
    /\ Cardinality(StatusIdx(wfile)) = 2
    /\ \E i \in StatusIdx(wfile) : wfile[i].code = 500

\* -------------------------------------------------------------------- C6
\* C6: with exactly one bound blank, a blank end becomes L-1 and a blank
\* start becomes 0 with the number given used as the inclusive end offset
\* (not a suffix length); bytes=-N with N >= L is 416.
C6_BlankBoundDefaults ==
    ( /\ Finished /\ Clean /\ RegularGet /\ req.kind = "canonical"
      /\ (req.cs = Blank) # (req.ce = Blank) )
    => IF req.ce = Blank
       THEN IF req.cs <= Len(file) - 1
            THEN IsPartial(req.cs, Len(file) - 1)
            ELSE Is416
       ELSE IF req.ce <= Len(file) - 1
            THEN IsPartial(0, req.ce)
            ELSE Is416

C6_Witness ==
    /\ pc = "Responded" /\ Clean /\ RegularGet /\ req.kind = "canonical"
    /\ req.cs = Blank /\ req.ce = 1 /\ Len(file) > chunk_size
    /\ Len(BodyBytes(wfile)) = 2

\* -------------------------------------------------------------------- C7
\* C7: requesting consecutive windows that partition [0, L-1], in order,
\* and concatenating the 206 bodies gives back the file exactly.
C7_RoundTrip ==
    (client_windows >= 1 /\ client_off = Len(file)) => client_buf = file

C7_Witness ==
    /\ client_windows >= 3
    /\ client_off = Len(file)
    /\ Len(file) > chunk_size

\* -------------------------------------------------------------------- C8
\* C8: a read or write failure after the 206 headers is swallowed: no
\* second status line, no error headers, no error body follow the 206
\* header block, and no exception leaves the handler.
C8_StreamFailureSwallowed ==
    (wfile # <<>> /\ wfile[1].t = "status" /\ wfile[1].code = 206)
    => /\ StatusIdx(wfile) = {1}
       /\ \A i \in 1..Len(wfile) : wfile[i].t # "errbody"
       /\ pc # "Raised"

\* -------------------------------------------------------------------- C9
\* C9: a 206 response on an unchanged file with a working sink streams
\* only after the header block is complete, from offset start, in
\* increasing offset order without gaps or overlaps, in chunks of at most
\* 8192 bytes; the remaining-byte counter stays non-negative and strictly
\* decreases; the loop terminates having written exactly end-start+1 bytes,
\* the number announced in Content-Length.
C9_Streaming206 ==
    /\ pc \in {"Streaming", "Responded"} /\ Clean
    /\ wfile # <<>> /\ wfile[1].t = "status" /\ wfile[1].code = 206

C9_State ==
    C9_Streaming206 =>
       LET hdr_end == CHOOSE j \in EndIdx(wfile) : \A k \in EndIdx(wfile) : j <= k
           written == BodyBytes(wfile)
       IN  /\ EndIdx(wfile) # {}
           /\ \A i \in 1..Len(wfile) :
                 IF i <= hdr_end
                 THEN wfile[i].t # "body"
                 ELSE /\ wfile[i].t = "body"
                      /\ Len(wfile[i].data) >= 1
                      /\ Len(wfile[i].data) <= 8192
           /\ written = SubSeq(file, start + 1, start + Len(written))
           /\ fpos = start + Len(written)
           /\ bytes_to_read >= 0
           /\ bytes_to_read = (end - start + 1) - Len(written)
           /\ (pc = "Streaming" => bytes_to_read > 0)
           /\ (pc = "Responded" =>
                 /\ Len(written) = end - start + 1
                 /\ HeaderValues(wfile, "Content-Length") = {Decimal(Len(written))})

C9_Step ==
    (pc = "Streaming" /\ Clean /\ Clean')
    => /\ bytes_to_read' < bytes_to_read
       /\ bytes_to_read' >= 0
       /\ Len(wfile') = Len(wfile) + 1
       /\ wfile'[Len(wfile')].data =
             SubSeq(file, fpos + 1, fpos + (bytes_to_read - bytes_to_read'))

C9_StreamingOrder ==
    /\ []C9_State
    /\ [][C9_Step]_vars
    /\ ((pc = "Streaming") ~> (pc # "Streaming"))

C9_Witness ==
    /\ pc = "Responded" /\ Clean
    /\ wfile # <<>> /\ wfile[1].code = 206
    /\ Cardinality({i \in 1..Len(wfile) : wfile[i].t = "body"}) = 2
    /\ start = 1
    /\ end = chunk_size + 1

\* -------------------------------------------------------------------- C10
\* C10: whenever a 206 status line is written the window satisfies
\* 0 <= start <= end <= L-1, so the announced Content-Length end-start+1 is
\* at least 1 and at most L; no 206 is produced for an empty file.
C10_ResolvedWindow ==
    \A i \in StatusIdx(wfile) :
       wfile[i].code = 206
       => /\ 0 <= start /\ start <= end /\ end <= file_size - 1
          /\ file_size >= 1
          /\ (~resource_changed => file_size = Len(file))
          /\ HeaderValuesIn(wfile, i, "Content-Length") = {Decimal(end - start + 1)}
          /\ end - start + 1 >= 1 /\ end - start + 1 <= file_size

C10_Witness ==
    /\ pc = "Streaming" /\ req.kind = "raw"
    /\ wfile[1].code = 206
    /\ start = 0 /\ end = 1

====
